---- MODULE Spec2Model ----
(***************************************************************************)
(* Model of Rotor_control.py: the RotorGUI supervisor of the rotctld       *)
(* child process, its output-drain thread, and the rotctl command client.  *)
(*                                                                         *)
(* Execution contexts:                                                     *)
(*   main    the Tk main loop; it runs one button handler at a time        *)
(*   drain   one thread per successful start (target = read_output)        *)
(*   env     the rotctld child processes                                   *)
(***************************************************************************)
EXTENDS Integers, Sequences, FiniteSets, TLC

\* ---------------------------------------------------------------- bounds
MaxSpawns == 2      \* successful Popen calls in one behaviour
MaxLines == 1       \* lines a child writes to its stdout
MaxErrLines == 1    \* lines a child writes to its stderr
MaxReplyLen == 3    \* characters in the stdout of one rotctl run
MaxPorts == 2       \* serial ports one enumeration lists
MaxQueued == 1      \* Get clicks waiting in the Tk event queue

\* ------------------------------------------------------------- constants
None == 0           \* self.rotctld = None
ElevMin == 0        \* lower clamp of ElevationIndicator.update_elevation
ElevMax == 180      \* upper clamp of ElevationIndicator.update_elevation

VARIABLES
    rotctld,    \* self.rotctld: None or the pid of the Popen object it holds
    procs,      \* the children spawned so far, by pid (1..Len(procs))
    threads,    \* the drain threads; thread i is the one created by spawn i
    log,        \* the content of the self.log text widget, one entry per line
    compass,    \* the angle the compass pointer shows
    elev,       \* the angle the elevation pointer shows
    mainpc,     \* where the main context is: idle, inside start, inside rotctl
    pending,    \* the command whose rotctl run the main context waits for
    last,       \* the most recent handler invocation and its outcome
    threaded,   \* whether the Tcl under tkinter was built with thread support
    port,       \* self.port: the device path in the Port combobox
    port_values,\* self.port_box["values"]: the candidates the combobox offers
    portcall,   \* the most recent update_ports call: what the host enumerated
    queued      \* Get clicks that arrived while the main context was busy

vars == <<rotctld, procs, threads, log, compass, elev, mainpc, pending,
          last, threaded, port, port_values, portcall, queued>>

\* the fields of the port discovery and of the Tk event queue
panel == <<port, port_values, portcall, queued>>

\* ------------------------------------------------------------- text model
NL == "\n"
Digits == {"9"}
Alphabet == Digits \cup {"x", NL}

\* every text rotctl can print on its stdout, as a sequence of characters
Replies == UNION {[1..n -> Alphabet] : n \in 0..MaxReplyLen}

DigitVal(c) == IF c = "9" THEN 9 ELSE 0

\* str.strip(): drop leading and trailing whitespace
RECURSIVE LStrip(_)
LStrip(s) == IF s # <<>> /\ Head(s) = NL THEN LStrip(Tail(s)) ELSE s

RECURSIVE RStrip(_)
RStrip(s) ==
    IF s # <<>> /\ s[Len(s)] = NL THEN RStrip(SubSeq(s, 1, Len(s) - 1)) ELSE s

Strip(s) == RStrip(LStrip(s))

\* str.splitlines(): the lines of s, a final line break opening no empty line
RECURSIVE SplitFrom(_, _, _)
SplitFrom(s, i, cur) ==
    IF i > Len(s) THEN (IF cur = <<>> THEN <<>> ELSE <<cur>>)
    ELSE IF s[i] = NL THEN <<cur>> \o SplitFrom(s, i + 1, <<>>)
    ELSE SplitFrom(s, i + 1, Append(cur, s[i]))

SplitLines(s) == SplitFrom(s, 1, <<>>)

\* float(l) succeeds: l is a non-empty run of digits (after its own strip)
IsFloat(l) == Strip(l) # <<>> /\ \A i \in 1..Len(Strip(l)) : Strip(l)[i] \in Digits

\* float(l): the number the digits of l denote
RECURSIVE DecVal(_)
DecVal(l) ==
    IF l = <<>> THEN 0
    ELSE 10 * DecVal(SubSeq(l, 1, Len(l) - 1)) + DigitVal(l[Len(l)])

ParseFloat(l) == DecVal(Strip(l))

Max(a, b) == IF a >= b THEN a ELSE b
Min(a, b) == IF a <= b THEN a ELSE b

\* ElevationIndicator.update_elevation: angle = max(0, min(180, angle))
ClampElevation(angle) == Max(ElevMin, Min(ElevMax, angle))

\* ------------------------------------------------------------ log entries
LogEntry(kind, run, n) == [kind |-> kind, run |-> run, n |-> n]

\* log_msg: insert the message at the end of the widget
log_msg(entry) == Append(log, entry)

\* ------------------------------------------------------------------ state
NewProc == [alive |-> TRUE, signalled |-> FALSE, out |-> 0, rd |-> 0, err |-> 0]
NewThread == [pc |-> "init", stream |-> None, held |-> 0]

\* a handler invocation: the button, the handle it found, its outcome so far
Called(op, result) == [op |-> op, pre |-> rotctld, result |-> result]

\* ---------------------------------------------------------- serial ports
DefaultPort == "/dev/ttyUSB0"       \* load_config: the port of the defaults
Devices == {"/dev/ttyUSB0", "/dev/ttyUSB1"}
ManualPort == "/dev/pts/3"          \* a path typed by hand, never enumerated

\* what the Port field can hold: the combobox is editable
PortTexts == Devices \cup {ManualPort}

\* [p.device for p in list_ports.comports()]: distinct devices, in host order
PortLists ==
    {l \in UNION {[1..n -> Devices] : n \in 0..MaxPorts} :
        \A i, j \in DOMAIN l : i # j => l[i] # l[j]}

\* ports as a set, for "in ports"
Listed(ports) == {ports[i] : i \in DOMAIN ports}

NoCall == [avail |-> FALSE, ports |-> <<>>, made |-> FALSE, repeated |-> FALSE]

\* update_ports with the values accumulating in the combobox
UpdatePortsAccumulating(cur, vals, avail, ports) ==
    IF avail
    THEN [port |-> IF ports # <<>> /\ cur \notin Listed(ports)
                   THEN ports[1] ELSE cur,
          values |-> vals \o ports]
    ELSE [port |-> cur, values |-> vals]

\* update_ports with the first port always selected
UpdatePortsTakesFirst(cur, vals, avail, ports) ==
    IF avail
    THEN [port |-> IF ports # <<>> THEN ports[1] ELSE cur,
          values |-> ports]
    ELSE [port |-> cur, values |-> vals]

\* update_ports on the fields: avail is "list_ports was imported", ports is
\* what comports() lists.  if list_ports: values = ports; if ports and
\* self.port.get() not in ports: self.port.set(ports[0])
UpdatePorts(cur, vals, avail, ports) ==
    IF avail
    THEN [port |-> IF ports # <<>> /\ cur \notin Listed(ports)
                   THEN ports[1] ELSE cur,
          values |-> ports]
    ELSE [port |-> cur, values |-> vals]

\* the panel after __init__: the port of the configuration, then update_ports
Constructed(cfgport, avail, ports) ==
    /\ rotctld = None
    /\ procs = <<>>
    /\ threads = <<>>
    /\ log = <<>>
    /\ compass = 0
    /\ elev = 0
    /\ mainpc = "idle"
    /\ pending = "none"
    /\ last = [op |-> "none", pre |-> None, result |-> "none"]
    /\ threaded \in BOOLEAN
    /\ port = UpdatePorts(cfgport, <<>>, avail, ports).port
    /\ port_values = UpdatePorts(cfgport, <<>>, avail, ports).values
    /\ portcall = NoCall
    /\ queued = 0

\* the default configuration on a host where pyserial is not installed
Init == Constructed(DefaultPort, FALSE, <<>>)

\* any saved configuration, any host
PanelInit ==
    \E cfgport \in PortTexts, avail \in BOOLEAN, ports \in PortLists :
        Constructed(cfgport, avail, ports)

\* ------------------------------------------------------- main: start/stop
\* Popen.terminate(): poll, then SIGTERM to a child that has not exited
Terminate(p) ==
    IF procs[p].alive THEN [procs EXCEPT ![p].signalled = TRUE] ELSE procs

\* start_rotctld up to Thread.start(): save_config, Popen, the drain thread.
\* saveOk: save_config wrote the file; spawnOk: Popen created the child.
start_rotctld(saveOk, spawnOk) ==
    /\ mainpc = "idle"
    /\ IF ~saveOk
       THEN \* save_config raised before the try: Tk reports the exception
            /\ last' = Called("start", "exception")
            /\ UNCHANGED <<rotctld, procs, threads, mainpc>>
       ELSE IF ~spawnOk
       THEN \* Popen raised: except branch, messagebox.showerror
            /\ last' = Called("start", "errorDialog")
            /\ UNCHANGED <<rotctld, procs, threads, mainpc>>
       ELSE /\ Len(procs) < MaxSpawns
            /\ procs' = Append(procs, NewProc)
            /\ rotctld' = Len(procs) + 1
            /\ threads' = Append(threads, NewThread)
            /\ mainpc' = "start_log"
            /\ last' = Called("start", "running")
    /\ UNCHANGED <<log, compass, elev, pending, threaded, panel>>

\* start_rotctld after Thread.start(): log_msg("rotctld started")
start_rotctld_log ==
    /\ mainpc = "start_log"
    /\ log' = log_msg(LogEntry("started", rotctld, 0))
    /\ mainpc' = "idle"
    /\ last' = [last EXCEPT !.result = "ok"]
    /\ UNCHANGED <<rotctld, procs, threads, compass, elev, pending, threaded, panel>>

\* stop_rotctld without self.rotctld = None
stop_rotctld_keeps_handle ==
    /\ mainpc = "idle"
    /\ last' = Called("stop", "ok")
    /\ IF rotctld # None
       THEN /\ procs' = Terminate(rotctld)
            /\ log' = log_msg(LogEntry("stopped", rotctld, 0))
       ELSE UNCHANGED <<procs, log>>
    /\ UNCHANGED <<rotctld, threads, compass, elev, mainpc, pending, threaded,
                   panel>>

\* stop_rotctld with log_msg moved out of the if
stop_rotctld_always_logs ==
    /\ mainpc = "idle"
    /\ last' = Called("stop", "ok")
    /\ log' = log_msg(LogEntry("stopped", rotctld, 0))
    /\ IF rotctld # None
       THEN /\ procs' = Terminate(rotctld)
            /\ rotctld' = None
       ELSE UNCHANGED <<procs, rotctld>>
    /\ UNCHANGED <<threads, compass, elev, mainpc, pending, threaded, panel>>

\* stop_rotctld: if self.rotctld: terminate, clear the handle, log
stop_rotctld ==
    /\ mainpc = "idle"
    /\ last' = Called("stop", "ok")
    /\ IF rotctld # None
       THEN /\ procs' = Terminate(rotctld)
            /\ rotctld' = None
            /\ log' = log_msg(LogEntry("stopped", rotctld, 0))
       ELSE UNCHANGED <<procs, rotctld, log>>
    /\ UNCHANGED <<threads, compass, elev, mainpc, pending, threaded, panel>>

\* ------------------------------------------------- main: command client
\* rotctl up to subprocess.run: one rotctl child against host:tcp, no timeout
rotctl(op) ==
    /\ pending' = op
    /\ mainpc' = "rotctl"

\* set_position: rotctl(["P", az, el])
set_position ==
    /\ mainpc = "idle"
    /\ rotctl("set")
    /\ last' = Called("set", "running")
    /\ UNCHANGED <<rotctld, procs, threads, log, compass, elev, threaded, panel>>

\* set_position once subprocess.run is over: the reply is dropped
set_position_return(runOk) ==
    /\ mainpc = "rotctl"
    /\ pending = "set"
    /\ mainpc' = "idle"
    /\ pending' = "none"
    /\ last' = [last EXCEPT !.result = IF runOk THEN "ok" ELSE "exception"]
    /\ UNCHANGED <<rotctld, procs, threads, log, compass, elev, threaded, panel>>

\* get_position: rotctl(["p"])
get_position ==
    /\ mainpc = "idle"
    /\ rotctl("get")
    /\ last' = Called("get", "running")
    /\ UNCHANGED <<rotctld, procs, threads, log, compass, elev, threaded, panel>>

\* what get_position does with the stdout of rotctl:
\* out = stdout.strip().splitlines(); if len(out) >= 2: float, float, update
ParseReply(reply) ==
    LET out == SplitLines(Strip(reply)) IN
    IF Len(out) >= 2
    THEN IF IsFloat(out[1]) /\ IsFloat(out[2])
         THEN [result |-> "ok", update |-> TRUE,
               az |-> ParseFloat(out[1]), el |-> ParseFloat(out[2])]
         ELSE [result |-> "exception", update |-> FALSE, az |-> 0, el |-> 0]
    ELSE [result |-> "ok", update |-> FALSE, az |-> 0, el |-> 0]

\* get_position with the pointers put back to 0 when there is no position
get_position_return_resets(runOk, reply) ==
    /\ mainpc = "rotctl"
    /\ pending = "get"
    /\ mainpc' = "idle"
    /\ pending' = "none"
    /\ IF runOk
       THEN LET r == ParseReply(reply) IN
            /\ last' = [last EXCEPT !.result = r.result]
            /\ IF r.update
               THEN /\ compass' = r.az
                    /\ elev' = ClampElevation(r.el)
               ELSE /\ compass' = 0
                    /\ elev' = 0
       ELSE /\ last' = [last EXCEPT !.result = "exception"]
            /\ UNCHANGED <<compass, elev>>
    /\ UNCHANGED <<rotctld, procs, threads, log, threaded, panel>>

\* get_position once subprocess.run is over (runOk) or has raised
get_position_return(runOk, reply) ==
    /\ mainpc = "rotctl"
    /\ pending = "get"
    /\ mainpc' = "idle"
    /\ pending' = "none"
    /\ IF runOk
       THEN LET r == ParseReply(reply) IN
            /\ last' = [last EXCEPT !.result = r.result]
            /\ IF r.update
               THEN /\ compass' = r.az
                    /\ elev' = ClampElevation(r.el)
               ELSE UNCHANGED <<compass, elev>>
       ELSE /\ last' = [last EXCEPT !.result = "exception"]
            /\ UNCHANGED <<compass, elev>>
    /\ UNCHANGED <<rotctld, procs, threads, log, threaded, panel>>

\* ------------------------------------------------------ the drain thread
\* read_output: evaluate self.rotctld.stdout
DrainResolve(t) ==
    /\ threads[t].pc = "init"
    /\ threads' = IF rotctld = None
                  THEN [threads EXCEPT ![t].pc = "error"]
                  ELSE [threads EXCEPT ![t].pc = "reading", ![t].stream = rotctld]
    /\ UNCHANGED <<rotctld, procs, log, compass, elev, mainpc, pending, last, threaded, panel>>

\* read_output: the for loop takes the next line of the pipe
DrainReadLine(t) ==
    /\ threads[t].pc = "reading"
    /\ LET p == threads[t].stream IN
       /\ procs[p].rd < procs[p].out
       /\ procs' = [procs EXCEPT ![p].rd = @ + 1]
       /\ threads' = [threads EXCEPT ![t].pc = "logging",
                                     ![t].held = procs[p].rd + 1]
    /\ UNCHANGED <<rotctld, log, compass, elev, mainpc, pending, last, threaded, panel>>

\* read_output: log_msg(line.strip()) from the drain thread.  With a threaded
\* Tcl the call is queued to the main loop and runs between two handlers;
\* without, it runs in the drain thread itself, under the Tcl lock, whatever
\* the main context is doing.
DrainLog(t) ==
    /\ threads[t].pc = "logging"
    /\ threaded => mainpc = "idle"
    /\ log' = log_msg(LogEntry("line", threads[t].stream, threads[t].held))
    /\ threads' = [threads EXCEPT ![t].pc = "reading", ![t].held = 0]
    /\ UNCHANGED <<rotctld, procs, compass, elev, mainpc, pending, last, threaded, panel>>

\* read_output: the pipe is at end of file, the loop and the thread end
DrainEOF(t) ==
    /\ threads[t].pc = "reading"
    /\ LET p == threads[t].stream IN
       /\ ~procs[p].alive
       /\ procs[p].rd = procs[p].out
    /\ threads' = [threads EXCEPT ![t].pc = "done"]
    /\ UNCHANGED <<rotctld, procs, log, compass, elev, mainpc, pending, last, threaded, panel>>

DrainStep == \E t \in 1..Len(threads) :
    DrainResolve(t) \/ DrainReadLine(t) \/ DrainLog(t) \/ DrainEOF(t)

\* ------------------------------------------------------ the rotctld child
\* the child writes a line to the stdout pipe (stdout=PIPE)
ProcWriteStdout(p) ==
    /\ procs[p].alive
    /\ procs[p].out < MaxLines
    /\ procs' = [procs EXCEPT ![p].out = @ + 1]
    /\ UNCHANGED <<rotctld, threads, log, compass, elev, mainpc, pending,
                   last, threaded, panel>>

\* the child writes a line to the stderr pipe (stderr=PIPE), which nobody reads
ProcWriteStderr(p) ==
    /\ procs[p].alive
    /\ procs[p].err < MaxErrLines
    /\ procs' = [procs EXCEPT ![p].err = @ + 1]
    /\ UNCHANGED <<rotctld, threads, log, compass, elev, mainpc, pending,
                   last, threaded, panel>>

\* the child exits: on the terminate signal, or on its own
ProcExit(p) ==
    /\ procs[p].alive
    /\ procs' = [procs EXCEPT ![p].alive = FALSE]
    /\ UNCHANGED <<rotctld, threads, log, compass, elev, mainpc, pending,
                   last, threaded, panel>>

\* ------------------------------------------------ main: port discovery
\* update_ports (the Refresh button)
update_ports(avail, ports) ==
    /\ mainpc = "idle"
    /\ port' = UpdatePorts(port, port_values, avail, ports).port
    /\ port_values' = UpdatePorts(port, port_values, avail, ports).values
    /\ portcall' = [avail |-> avail, ports |-> ports, made |-> TRUE,
                    repeated |-> /\ portcall.made
                                 /\ portcall.avail = avail
                                 /\ portcall.ports = ports]
    /\ last' = Called("ports", "ok")
    /\ UNCHANGED <<rotctld, procs, threads, log, compass, elev, mainpc,
                   pending, threaded, queued>>

\* the user types a device path into the Port combobox (textvariable)
edit_port(text) ==
    /\ mainpc = "idle"
    /\ port' = text
    /\ portcall' = NoCall
    /\ last' = Called("edit", "ok")
    /\ UNCHANGED <<rotctld, procs, threads, log, compass, elev, mainpc,
                   pending, threaded, port_values, queued>>

\* ------------------------------------------------ main: the event queue
\* the user clicks Get while the main context is inside rotctl: Tk keeps the
\* click in its event queue
click_get_busy ==
    /\ mainpc = "rotctl"
    /\ queued < MaxQueued
    /\ queued' = queued + 1
    /\ UNCHANGED <<rotctld, procs, threads, log, compass, elev, mainpc,
                   pending, last, threaded, port, port_values, portcall>>

\* back in the main loop, Tk dispatches a queued click: get_position runs
get_position_queued ==
    /\ mainpc = "idle"
    /\ queued > 0
    /\ queued' = queued - 1
    /\ rotctl("get")
    /\ last' = Called("get", "running")
    /\ UNCHANGED <<rotctld, procs, threads, log, compass, elev, threaded,
                   port, port_values, portcall>>

\* ---------------------------------------------------------- specification
Next ==
    \/ \E saveOk \in BOOLEAN, spawnOk \in BOOLEAN : start_rotctld(saveOk, spawnOk)
    \/ start_rotctld_log
    \/ stop_rotctld
    \/ set_position
    \/ \E runOk \in BOOLEAN : set_position_return(runOk)
    \/ get_position
    \/ \E runOk \in BOOLEAN, reply \in Replies : get_position_return(runOk, reply)
    \/ \E t \in 1..Len(threads) : DrainResolve(t)
    \/ \E t \in 1..Len(threads) : DrainReadLine(t)
    \/ \E t \in 1..Len(threads) : DrainLog(t)
    \/ \E t \in 1..Len(threads) : DrainEOF(t)
    \/ \E p \in 1..Len(procs) : ProcWriteStdout(p)
    \/ \E p \in 1..Len(procs) : ProcWriteStderr(p)
    \/ \E p \in 1..Len(procs) : ProcExit(p)

Spec == Init /\ [][Next]_vars

\* The scheduler runs every drain thread that can take a step, and the main
\* context, once inside start_rotctld, goes on to its log_msg.  Nothing makes
\* the user press a button, a child exit or write, or a rotctl run return.
FairSpec ==
    /\ Spec
    /\ WF_vars(DrainStep)
    /\ WF_vars(start_rotctld_log)

\* The panel without the daemon: the command client with the Tk event queue,
\* and the port discovery.  No action of it reads a field of the supervisor,
\* and no action of Next reads a field of the port discovery.
PanelNext ==
    \/ set_position
    \/ \E runOk \in BOOLEAN : set_position_return(runOk)
    \/ get_position
    \/ \E runOk \in BOOLEAN, reply \in Replies : get_position_return(runOk, reply)
    \/ click_get_busy
    \/ get_position_queued
    \/ \E avail \in BOOLEAN, ports \in PortLists : update_ports(avail, ports)
    \/ \E text \in PortTexts : edit_port(text)

PanelSpec == PanelInit /\ [][PanelNext]_vars

\* ------------------------------------------------------------------ claims
Pids == 1..Len(procs)

\* the entries of the log of one kind for one run
Entries(kind, p) == {i \in DOMAIN log : log[i].kind = kind /\ log[i].run = p}

\* an error outcome the user gets to see
Surfaced(result) ==
    result \in {"AlreadyRunning", "SpawnFailed", "ProtocolError",
                "errorDialog", "exception"}

\* C1: while the handle is Running, a start_rotctld call (whose config save
\* and process creation would succeed) fails with AlreadyRunning and changes
\* nothing: no new process, the handle still the first process, no new drain
\* thread, no log entry.
C1_SecondStartRejected ==
    [][(rotctld # None /\ start_rotctld(TRUE, TRUE))
        => /\ last'.result = "AlreadyRunning"
           /\ UNCHANGED <<rotctld, procs, threads, log>>]_vars

\* C2: at most one child spawned by the supervisor is alive and un-terminated.
C2_AtMostOneAlive ==
    Cardinality({p \in Pids : procs[p].alive /\ ~procs[p].signalled}) <= 1

\* C3: stop_rotctld on a handle that is None (already stopped, or never
\* started) succeeds and changes nothing: no signal, no log entry, the handle
\* still None.
C3_StopIdempotent ==
    [][(rotctld = None /\ stop_rotctld)
        => /\ last'.result = "ok"
           /\ UNCHANGED <<rotctld, procs, threads, log, compass, elev,
                          mainpc, pending>>]_vars

\* C3 witness: a stop that found the handle already cleared by an earlier stop
C3_Witness ==
    /\ last.op = "stop"
    /\ last.pre = None
    /\ \E i \in DOMAIN log : log[i].kind = "stopped"

\* C4: a reply of exactly two numeric lines sets the displayed position to
\* those two values; a reply with fewer than two lines, or with a non-numeric
\* line among the first two, ends get_position with an error the caller
\* sees and leaves the displayed position alone.
C4_GetPositionContract ==
    [][\A reply \in Replies :
        get_position_return(TRUE, reply) =>
            LET out == SplitLines(Strip(reply)) IN
            /\ (Len(out) = 2 /\ IsFloat(out[1]) /\ IsFloat(out[2]))
                => /\ compass' = ParseFloat(out[1])
                   /\ elev' = ParseFloat(out[2])
            /\ (Len(out) < 2 \/ ~IsFloat(out[1]) \/ ~IsFloat(out[2]))
                => /\ Surfaced(last'.result)
                   /\ UNCHANGED <<compass, elev>>]_vars

\* child p exited on its own while it is the handle
CrashedRunning(p) ==
    /\ p \in Pids
    /\ rotctld = p
    /\ ~procs[p].alive
    /\ ~procs[p].signalled

\* C5: a child that exits while it is the Running handle, with no stop
\* requested, is eventually detected: the handle leaves that process and an
\* unexpected-exit event for it is in the log.
C5_UnexpectedExitDetected ==
    \A p \in 1..MaxSpawns :
        [](CrashedRunning(p) =>
            <>(rotctld # p /\ Entries("unexpected_exit", p) # {}))

\* C6: a run is reported stopped only once its child has exited: the child of
\* every 'rotctld stopped' entry is no longer alive.
C6_StoppedMeansExited ==
    \A i \in DOMAIN log : log[i].kind = "stopped" => ~procs[log[i].run].alive

\* C7: a start_rotctld whose process creation fails is surfaced as a failure
\* and recorded in the log; it starts no drain thread, logs no 'rotctld
\* started', and leaves the handle not Running.
C7_SpawnFailureReported ==
    [][start_rotctld(TRUE, FALSE)
        => /\ Surfaced(last'.result)
           /\ Len(log') = Len(log) + 1
           /\ log'[Len(log')].kind = "spawn_failed"
           /\ UNCHANGED threads
           /\ rotctld' = None]_vars

\* C8: from a stop_rotctld that cleared the handle until the next successful
\* start, no rotctl run (command connection attempt) begins.
C8_NoCommandWhileStopped ==
    [][(rotctld = None /\ Len(procs) > 0)
        => ~(mainpc # "rotctl" /\ mainpc' = "rotctl")]_vars

\* the children have exited, the drain threads have ended, no handler runs
Quiescent ==
    /\ mainpc = "idle"
    /\ \A p \in Pids : ~procs[p].alive
    /\ \A t \in DOMAIN threads : threads[t].pc \in {"done", "error"}

\* C9: for each run the 'rotctld started' entry precedes the run's output
\* lines, the lines are in the order the child wrote them, and once the
\* children have exited and the drain threads have ended every line a child
\* wrote, on stdout or on stderr, is in the log.
C9_LogOrderedAndComplete ==
    /\ \A i \in DOMAIN log : log[i].kind = "line" =>
          \E j \in 1..(i - 1) : log[j].kind = "started" /\ log[j].run = log[i].run
    /\ \A i, j \in DOMAIN log :
          (i < j /\ log[i].kind = "line" /\ log[j].kind = "line"
                 /\ log[i].run = log[j].run) => log[i].n < log[j].n
    /\ Quiescent => \A p \in Pids :
          /\ \A k \in 1..procs[p].out :
                \E i \in DOMAIN log : log[i] = LogEntry("line", p, k)
          /\ Cardinality(Entries("errline", p)) = procs[p].err

\* the main context can run a handler that assigns self.rotctld
MainWritesHandle ==
    \/ ENABLED (stop_rotctld /\ rotctld' # rotctld)
    \/ ENABLED (start_rotctld(TRUE, TRUE) /\ rotctld' # rotctld)

\* the main context can insert into the log widget
MainWritesLog ==
    \/ ENABLED start_rotctld_log
    \/ ENABLED (stop_rotctld /\ log' # log)

\* C10: no drain thread is about to read the handle field while the main
\* context can write it, and none is about to insert into the log widget,
\* from its own thread, while the main context can insert too.
C10_NoUnsynchronizedAccess ==
    \A t \in DOMAIN threads :
        /\ threads[t].pc = "init" => ~MainWritesHandle
        /\ (threads[t].pc = "logging" /\ ~threaded) => ~MainWritesLog

\* C11: every set_position / get_position call returns control to the main
\* context: whenever the main context is inside a rotctl run, it is eventually
\* out of it again.
C11_CommandReturns == (mainpc = "rotctl") ~> (mainpc # "rotctl")

\* a reply get_position takes a position from: two numeric lines to start with
GoodReply(runOk, reply) ==
    LET out == SplitLines(Strip(reply)) IN
    runOk /\ Len(out) >= 2 /\ IsFloat(out[1]) /\ IsFloat(out[2])

C13_BusyRequestSkipped ==
    [][/\ mainpc = "rotctl" => (mainpc' = "rotctl" => pending' = pending)
       /\ queued' < queued => mainpc' # "rotctl"]_vars

\* C14: update_ports called again with the enumeration of the call before
\* leaves the candidate list and the device path as that call left them; with
\* no enumeration, or an empty one, it ends normally and leaves the device
\* path alone.
C14_UpdatePortsIdempotent ==
    [][\A avail \in BOOLEAN, ports \in PortLists :
        update_ports(avail, ports) =>
            /\ (portcall.made /\ portcall.avail = avail /\ portcall.ports = ports)
                => UNCHANGED <<port, port_values>>
            /\ (~avail \/ ports = <<>>)
                => (port' = port /\ last'.result = "ok")]_vars

\* C14 witness: a second update_ports in a row on a host that lists two ports
C14_Witness ==
    /\ portcall.repeated
    /\ portcall.avail
    /\ Len(portcall.ports) = 2

\* C15: the drain thread of a start reads the stdout of the child of that
\* same start: it never finds the handle None, and never resolves it to the
\* child of another start.
C15_DrainReadsOwnChild ==
    \A t \in DOMAIN threads :
        /\ threads[t].pc # "error"
        /\ threads[t].pc \in {"reading", "logging", "done"}
            => threads[t].stream = t

\* C16: every 'rotctld stopped' entry follows the 'rotctld started' entry of
\* the same run and is the only one for that run, there are no more 'rotctld
\* stopped' entries than successful spawns, and the handle is set exactly
\* when the latest spawn has not been stopped.
C16_LifecycleWellNested ==
    /\ \A i \in DOMAIN log : log[i].kind = "stopped" =>
          /\ log[i].run \in DOMAIN procs
          /\ Entries("stopped", log[i].run) = {i}
    /\ Cardinality({i \in DOMAIN log : log[i].kind = "stopped"}) <= Len(procs)
    /\ rotctld # None <=>
          (Len(procs) > 0 /\ Entries("stopped", Len(procs)) = {})
    /\ rotctld # None => rotctld = Len(procs)

\* C16 witness: a run stopped and the next one started
C16_Witness ==
    /\ rotctld = 2
    /\ Entries("stopped", 1) # {}
    /\ Entries("started", 2) # {}

\* C17: update_ports with a non-empty enumeration leaves a device path that is
\* one of the enumerated ports: the current path if it is among them, the
\* first port otherwise.
C17_PortAmongEnumerated ==
    [][\A ports \in PortLists :
        (ports # <<>> /\ update_ports(TRUE, ports)) =>
            /\ port' \in Listed(ports)
            /\ port \in Listed(ports) => port' = port
            /\ port \notin Listed(ports) => port' = ports[1]]_vars

\* C17 witness: update_ports kept a path that is listed, but not first
C17_Witness ==
    /\ portcall.made
    /\ portcall.avail
    /\ Len(portcall.ports) = 2
    /\ port = portcall.ports[2]

====
